---- MODULE Spec2Model ----
(***************************************************************************)
(* Model of client.go: construction of the update client (NewUpdater,      *)
(* NewHttpClient, NewHttpsClient, initServerTrust, initClientCert), the    *)
(* update check (GetScheduledUpdate, processUpdateResponse,                *)
(* validateGetUpdate) and the download guard (FetchUpdate), with the       *)
(* shared request step makeAndSendRequest.                                 *)
(*                                                                         *)
(* The file system, the network and the server are the environment: file  *)
(* contents, the outcome of the HTTP round trip and the response received  *)
(* are drawn from small sets.                                              *)
(***************************************************************************)
EXTENDS Integers, Sequences, FiniteSets, TLC

VARIABLES
    pc,         \* "new" | "idle" | "process" | "deferred" | "done" | "panic"
    conf,       \* the httpsClientConfig handed to NewUpdater
    updater,    \* the Updater interface value NewUpdater returned
    client,     \* the client struct behind the pointer held by updater
    trace,      \* construction steps invoked and warnings logged, in order
    call,       \* the call in progress or last returned
    r,          \* the *http.Response of the call, or Nil
    body,       \* r.Body: its state and how often it was closed
    ret,        \* what the call returned
    lastCheck   \* history: the previous update check that obtained a response

vars == <<pc, conf, updater, client, trace, call, r, body, ret, lastCheck>>

Nil == "nil"

(***************************************************************************)
(* Program constants.                                                      *)
(***************************************************************************)
minimumImageSize == 4096

updateResponseHaveUpdate == 200

updateResponseNoUpdates == 204

updateResponseError == 404

errorLoadingClientCertificate == "Failed to load certificate and key"

errorAddingServerCertificateToPool == "Error adding trusted server certificate to pool."

(***************************************************************************)
(* Bound of the model: how far above minimumImageSize the declared         *)
(* content lengths go.                                                     *)
(***************************************************************************)
MaxOver == 1

(***************************************************************************)
(* The file system seen by construction.                                   *)
(***************************************************************************)
ServerCertPaths == {"", "/missing.pem", "/junk.pem", "/ca.pem"}

CertFilePaths == {"", "/missing.crt", "/client.crt"}

CertKeyPaths == {"", "/client.key", "/other.key"}

Configs == [certFile : CertFilePaths, certKey : CertKeyPaths, serverCert : ServerCertPaths]

\* The zero value httpsClientConfig{}.
EmptyConfig == [certFile |-> "", certKey |-> "", serverCert |-> ""]

\* ioutil.ReadFile: an error for a file that cannot be read, else its bytes.
ReadFile(path) ==
    IF path \in {"/missing.pem", "/missing.crt"}
    THEN [err |-> "open " \o path \o ": no such file or directory", data |-> Nil]
    ELSE [err |-> Nil, data |-> path]

\* CertPool.AppendCertsFromPEM followed by Subjects(): the subjects of the
\* PEM certificates found in the data.
AppendCertsFromPEM(pool, data) ==
    IF data = "/ca.pem" THEN pool \cup {"CN=update-server-ca"} ELSE pool

\* tls.LoadX509KeyPair: the pair loads when both files parse and the key
\* belongs to the certificate.
LoadX509KeyPair(certFile, certKey) ==
    IF certFile = "/client.crt" /\ certKey = "/client.key"
    THEN [err |-> Nil, cert |-> "client-keypair"]
    ELSE [err |-> "tls: failed to load key pair", cert |-> Nil]

(***************************************************************************)
(* Construction.                                                           *)
(***************************************************************************)
warnNoServerCert == "warn: Server certificate not provided. Trusting all servers."

warnNoClientCert == "warn: No client key and certificate provided. Using auto-generated."

\* The zero value of the embedded httpsClientAuthCreds.
ZeroCreds == [clientCert |-> Nil, trustedCerts |-> {}]

\* NewHttpClient: minImageSize and a default http.Client (no Transport).
\* The credentials stay at their zero value; a plain client has none.
NewHttpClient ==
    [HTTPClient |-> [Transport |-> Nil],
     minImageSize |-> minimumImageSize,
     creds |-> ZeroCreds]

\* initServerTrust: the client after the step, its error and what it did.
initServerTrust(c, cf) ==
    IF cf.serverCert = ""
    THEN [c |-> c, err |-> Nil, did |-> <<"initServerTrust", warnNoServerCert>>]
    ELSE LET c1 == [c EXCEPT !.creds.trustedCerts = {}]
             file == ReadFile(cf.serverCert)
             c2 == [c1 EXCEPT !.creds.trustedCerts = AppendCertsFromPEM({}, file.data)]
         IN  IF file.err # Nil
             THEN [c |-> c1, err |-> file.err, did |-> <<"initServerTrust", "ReadFile">>]
             ELSE IF Cardinality(c2.creds.trustedCerts) = 0
             THEN [c |-> c2, err |-> errorAddingServerCertificateToPool,
                   did |-> <<"initServerTrust", "ReadFile", "AppendCertsFromPEM">>]
             ELSE [c |-> c2, err |-> Nil,
                   did |-> <<"initServerTrust", "ReadFile", "AppendCertsFromPEM">>]

\* Mutant: the pair is loaded unless both paths are empty.
NoClientKeyPair_BothEmpty(cf) == cf.certFile = "" /\ cf.certKey = ""

\* The guard of initClientCert: no pair is loaded when either path is empty.
NoClientKeyPair(cf) == cf.certFile = "" \/ cf.certKey = ""

\* initClientCert: the client after the step, its error and what it did.
initClientCert(c, cf) ==
    IF NoClientKeyPair(cf)
    THEN [c |-> c, err |-> Nil, did |-> <<"initClientCert", warnNoClientCert>>]
    ELSE LET pair == LoadX509KeyPair(cf.certFile, cf.certKey)
         IN  IF pair.err # Nil
             THEN [c |-> c, err |-> errorLoadingClientCertificate,
                   did |-> <<"initClientCert", "LoadX509KeyPair">>]
             ELSE [c |-> [c EXCEPT !.creds.clientCert = pair.cert], err |-> Nil,
                   did |-> <<"initClientCert", "LoadX509KeyPair">>]

\* NewHttpsClient: the pointer it returns ("nil" or "client"), the struct it
\* built and what it did.
NewHttpsClient(cf) ==
    LET c0 == NewHttpClient
        st == initServerTrust(c0, cf)
        cc == initClientCert(st.c, cf)
    IN  IF st.err # Nil
        THEN [ptr |-> Nil, c |-> st.c, did |-> <<"NewHttpsClient">> \o st.did]
        ELSE IF cc.err # Nil
        THEN [ptr |-> Nil, c |-> cc.c, did |-> <<"NewHttpsClient">> \o st.did \o cc.did]
        ELSE [ptr |-> "client",
              c |-> [cc.c EXCEPT !.HTTPClient.Transport = "tls"],
              did |-> <<"NewHttpsClient">> \o st.did \o cc.did \o <<"Transport">>]

\* NewUpdater: the returned *httpClient or *httpsClient is converted to the
\* interface type Updater.  The interface value holds the dynamic type and
\* the pointer; it compares equal to nil only when it holds no type at all.
NewUpdater(cf) ==
    IF cf = EmptyConfig
    THEN [itype |-> "*httpClient", ptr |-> "client", c |-> NewHttpClient,
          did |-> <<"NewHttpClient">>]
    ELSE LET h == NewHttpsClient(cf)
         IN  [itype |-> "*httpsClient", ptr |-> h.ptr, c |-> h.c, did |-> h.did]

\* updater == nil, as the caller of NewUpdater evaluates it.
IsNilInterface(u) == u.itype = Nil

NoUpdater == [itype |-> Nil, ptr |-> Nil]

(***************************************************************************)
(* Response bodies.  A body is a JSON document or bytes that are no JSON;  *)
(* a JSON object carries, for each key the decoder looks at, the value     *)
(* found under it.                                                         *)
(***************************************************************************)
Strs == {"", "a"}

Absent == [t |-> "absent", s |-> ""]

JNull == [t |-> "null", s |-> ""]

JNum == [t |-> "num", s |-> ""]

JStr(s) == [t |-> "str", s |-> s]

Doc(k, id, imageK, uri, checksum, imageId) ==
    [k |-> k, ID |-> id, ImageK |-> imageK, URI |-> uri, Checksum |-> checksum,
     ImageID |-> imageId]

\* {"ID": id, "Image": {"URI": uri, "Checksum": checksum, "ID": imageId}}
Obj(id, uri, checksum, imageId) == Doc("object", id, "object", uri, checksum, imageId)

Plain(k) == Doc(k, Absent, "absent", Absent, Absent, Absent)

CompleteObjects ==
    {Obj(JStr(a), JStr(b), JStr(c), JStr(d)) : a \in Strs, b \in Strs, c \in Strs, d \in Strs}

IrregularBodies ==
    { Plain("text"),                                  \* not json
      Plain("empty"),                                 \* zero bytes
      Plain("null"),                                  \* null
      Plain("num"),                                   \* 42
      Plain("object"),                                \* {}
      Doc("object", JStr("a"), "null", Absent, Absent, Absent),   \* "Image": null
      Doc("object", JStr("a"), "num", Absent, Absent, Absent),    \* "Image": 7
      Obj(JNum, JStr("a"), JStr("a"), JStr("a")),     \* "ID": 7
      Obj(JNull, JStr("a"), JStr("a"), JStr("a")),    \* "ID": null
      Obj(Absent, JStr("a"), JStr("a"), JStr("a")),   \* no "ID"
      Obj(JStr("a"), Absent, JStr("a"), JStr("a")),   \* no "URI"
      Obj(JStr("a"), JStr("a"), JNum, JStr("a")),     \* "Checksum": 7
      Obj(JStr("a"), JStr("a"), JStr("a"), JNull) }   \* "Image": {"ID": null}

Bodies == CompleteObjects \cup IrregularBodies

\* A body whose read fails before the bytes are delivered.
BrokenStream == Plain("broken")

BodyStreams == Bodies \cup {BrokenStream}

\* ioutil.ReadAll(response.Body)
ReadAll(stream) ==
    IF stream.k = "broken"
    THEN [err |-> "unexpected EOF", bytes |-> Plain("empty")]
    ELSE [err |-> Nil, bytes |-> stream]

\* The zero value of UpdateResponse.
ZeroUpdateResponse == [ID |-> "", Image |-> [URI |-> "", Checksum |-> "", ID |-> ""]]

\* Decoding one JSON value into a string field: a string is stored, null
\* and an absent key leave the field alone, anything else is a type error.
StoreString(old, v) == IF v.t = "str" THEN v.s ELSE old

TypeMismatch(v) == v.t = "num"

\* json.Unmarshal(respBody, data) with data a fresh UpdateResponse:
\* kind is "syntax" for a *json.SyntaxError, "type" for another error
\* (an UnmarshalTypeError), Nil on success.
Unmarshal(bytes) ==
    IF bytes.k \in {"text", "empty", "broken"}
    THEN [kind |-> "syntax", data |-> ZeroUpdateResponse]
    ELSE IF bytes.k = "null"
    THEN [kind |-> Nil, data |-> ZeroUpdateResponse]
    ELSE IF bytes.k # "object"
    THEN [kind |-> "type", data |-> ZeroUpdateResponse]
    ELSE LET inImage == bytes.ImageK = "object"
             image == IF inImage
                      THEN [URI |-> StoreString("", bytes.URI),
                            Checksum |-> StoreString("", bytes.Checksum),
                            ID |-> StoreString("", bytes.ImageID)]
                      ELSE ZeroUpdateResponse.Image
             bad == \/ TypeMismatch(bytes.ID)
                    \/ bytes.ImageK = "num"
                    \/ inImage /\ \/ TypeMismatch(bytes.URI)
                                  \/ TypeMismatch(bytes.Checksum)
                                  \/ TypeMismatch(bytes.ImageID)
         IN  [kind |-> IF bad THEN "type" ELSE Nil,
              data |-> [ID |-> StoreString("", bytes.ID), Image |-> image]]

(***************************************************************************)
(* The update check.                                                       *)
(***************************************************************************)
errMissingParameters == "Missing parameters in encoded JSON response"

errSyntax == "Error parsing data syntax"

errParsing == "Error parsing data: json: cannot unmarshal"

errNotAuthorized == "Client not authorized to get update schedule."

errInvalidResponse == "Invalid response received from server"

\* Mutant: the checksum is not looked at.
validateGetUpdate_NoChecksum(update) ==
    IF update.ID # "" /\ update.Image.ID # "" /\ update.Image.URI # ""
    THEN Nil
    ELSE errMissingParameters

\* validateGetUpdate: Nil when all four fields are non-empty.
validateGetUpdate(update) ==
    IF update.ID # "" /\ update.Image.ID # "" /\ update.Image.Checksum # ""
       /\ update.Image.URI # ""
    THEN Nil
    ELSE errMissingParameters

\* A returned (interface{}, error): has tells a non-nil first value.
Result(has, data, err) == [has |-> has, data |-> data, err |-> err]

\* The body of processUpdateResponse, for a response whose status code is
\* status: what it returns, and how often it read the body, called
\* json.Unmarshal and called validateGetUpdate.
processStatus(response, status) ==
    LET read == ReadAll(response.Body)
        dec == Unmarshal(read.bytes)
        verr == validateGetUpdate(dec.data)
        Out(res, nDecode, nValidate) ==
            [ret |-> res, reads |-> 1, decodes |-> nDecode, validates |-> nValidate]
        fail(e) == Result(FALSE, ZeroUpdateResponse, e)
    IN  IF read.err # Nil THEN Out(fail(read.err), 0, 0)
        ELSE IF status = updateResponseHaveUpdate
        THEN IF dec.kind = "syntax" THEN Out(fail(errSyntax), 1, 0)
             ELSE IF dec.kind # Nil THEN Out(fail(errParsing), 1, 0)
             ELSE IF verr # Nil THEN Out(fail(verr), 1, 1)
             ELSE Out(Result(TRUE, dec.data, Nil), 1, 1)
        ELSE IF status = updateResponseNoUpdates
        THEN Out(fail(Nil), 0, 0)
        ELSE IF status = updateResponseError
        THEN Out(fail(errNotAuthorized), 0, 0)
        ELSE Out(fail(errInvalidResponse), 0, 0)

\* Mutant: status 204 is handled by the 200 branch, so the body is decoded.
processUpdateResponse_DecodesOn204(response) ==
    processStatus(response,
                  IF response.StatusCode = updateResponseNoUpdates
                  THEN updateResponseHaveUpdate
                  ELSE response.StatusCode)

\* Mutant: the 404 case is missing and falls to the default branch.
processUpdateResponse_No404Case(response) ==
    processStatus(response,
                  IF response.StatusCode = updateResponseError
                  THEN 500
                  ELSE response.StatusCode)

\* processUpdateResponse switches on response.StatusCode.
processUpdateResponse(response) == processStatus(response, response.StatusCode)

(***************************************************************************)
(* Requests and responses.                                                 *)
(***************************************************************************)
Statuses == {updateResponseHaveUpdate, updateResponseNoUpdates, updateResponseError, 500}

\* Declared content lengths: unknown, empty, small, and around the minimum.
Lengths == {-1, 0, 100, minimumImageSize - 1} \cup
           {minimumImageSize + k : k \in 0..MaxOver}

Response(status, stream, length) ==
    [got |-> TRUE, StatusCode |-> status, Body |-> stream, ContentLength |-> length]

NoResponse == [got |-> FALSE, StatusCode |-> 0, Body |-> Plain("empty"), ContentLength |-> 0]

\* Bodies sent along with a status that announces no descriptor.
SampleStreams ==
    { Plain("empty"), Plain("text"), BrokenStream,
      Obj(JStr("a"), JStr("a"), JStr("a"), JStr("a")),
      Obj(JStr("a"), JStr(""), JStr("a"), JStr("a")) }

\* What the server answers to an update check: metadata of undeclared length.
CheckResponses ==
    {Response(updateResponseHaveUpdate, b, -1) : b \in BodyStreams} \cup
    {Response(st, b, -1) : st \in Statuses \ {updateResponseHaveUpdate}, b \in SampleStreams}

\* What the server answers to a download: opaque bytes of a declared length.
FetchResponses == {Response(st, Plain("text"), n) : st \in Statuses, n \in Lengths}

\* The outcome of the round trip http.Client.Do: a transport error or a response.
TransportFailure == [ok |-> FALSE, resp |-> NoResponse]

RoundTrips(responses) == {TransportFailure} \cup {[ok |-> TRUE, resp |-> x] : x \in responses}

\* The round trips a call can see: none is made for a request that was not built.
Outcomes(url, responses) ==
    IF url = "https://%zz/" THEN {TransportFailure} ELSE RoundTrips(responses)

Urls == {"https://server/api/update", "https://%zz/"}

\* http.NewRequest: fails when the URL does not parse.
NewRequest(url) == IF url = "https://%zz/" THEN "parse: invalid URL escape" ELSE Nil

errTransport == "Get: dial tcp: connection refused"

\* Mutant: a failed round trip is tried once more.
makeAndSendRequest_Retry(url, net) ==
    IF NewRequest(url) # Nil
    THEN [resp |-> NoResponse, err |-> NewRequest(url), built |-> FALSE, requests |-> 0]
    ELSE IF ~net.ok
    THEN [resp |-> NoResponse, err |-> errTransport, built |-> TRUE, requests |-> 2]
    ELSE [resp |-> net.resp, err |-> Nil, built |-> TRUE, requests |-> 1]

\* makeAndSendRequest: the response or the error, whether the request was
\* built, and the number of requests handed to HTTPClient.Do.
makeAndSendRequest(url, net) ==
    IF NewRequest(url) # Nil
    THEN [resp |-> NoResponse, err |-> NewRequest(url), built |-> FALSE, requests |-> 0]
    ELSE IF ~net.ok
    THEN [resp |-> NoResponse, err |-> errTransport, built |-> TRUE, requests |-> 1]
    ELSE [resp |-> net.resp, err |-> Nil, built |-> TRUE, requests |-> 1]

errUnknownSize == "Will not continue with unknown image size."

errTooSmall == "Less than minimum size image update? Something is wrong, aborting."

\* Mutant: a length equal to the minimum is rejected too.
SizeGuard_Inclusive(length, minImageSize) ==
    IF length < 0 THEN errUnknownSize
    ELSE IF length <= minImageSize THEN errTooSmall
    ELSE Nil

\* The content-length guard of FetchUpdate: Nil when the stream is returned.
SizeGuard(length, minImageSize) ==
    IF length < 0 THEN errUnknownSize
    ELSE IF length < minImageSize THEN errTooSmall
    ELSE Nil

(***************************************************************************)
(* State.                                                                  *)
(***************************************************************************)
NoCall ==
    [op |-> "none", url |-> "", built |-> FALSE, requests |-> 0, sendErr |-> Nil,
     reads |-> 0, decodes |-> 0, validates |-> 0, processed |-> 0]

NoBody == [state |-> "none", closes |-> 0]

\* What a call returns: GetScheduledUpdate uses has, data and err;
\* FetchUpdate uses stream ("body" for r.Body), n and err.
NoReturn ==
    [has |-> FALSE, data |-> ZeroUpdateResponse, err |-> Nil, stream |-> Nil, n |-> 0]

CheckReturn(res) ==
    [has |-> res.has, data |-> res.data, err |-> res.err, stream |-> Nil, n |-> 0]

FetchReturn(stream, n, err) ==
    [has |-> FALSE, data |-> ZeroUpdateResponse, err |-> err, stream |-> stream, n |-> n]

NoCheck == [some |-> FALSE, r |-> NoResponse, ret |-> NoReturn, client |-> NewHttpClient]

Init ==
    /\ pc = "new"
    /\ conf \in Configs
    /\ updater = NoUpdater
    /\ client = NewHttpClient
    /\ trace = <<>>
    /\ call = NoCall
    /\ r = NoResponse
    /\ body = NoBody
    /\ ret = NoReturn
    /\ lastCheck = NoCheck

\* The caller constructs its client: updater := NewUpdater(conf).
Construct ==
    /\ pc = "new"
    /\ LET u == NewUpdater(conf)
       IN  /\ updater' = [itype |-> u.itype, ptr |-> u.ptr]
           /\ client' = u.c
           /\ trace' = u.did
    /\ pc' = "idle"
    /\ UNCHANGED <<conf, call, r, body, ret, lastCheck>>

\* The caller is between calls and holds a pointer to a client.
CanCall == pc \in {"idle", "done"} /\ updater.ptr # Nil

\* History: the latest update check that returned with a response.
LatestCheck ==
    IF call.op = "check" /\ r.got
    THEN [some |-> TRUE, r |-> r, ret |-> ret, client |-> client]
    ELSE lastCheck

\* A download leaves the history of update checks as it is.
RememberAcross == lastCheck' = LatestCheck

\* A new update check keeps the latest one to compare with when it obtains
\* the same response, and forgets it otherwise.
RememberSame(resp) ==
    lastCheck' = IF ~resp.got \/ (LatestCheck.some /\ LatestCheck.r = resp)
                 THEN LatestCheck
                 ELSE NoCheck

\* A method called through an Updater that holds a nil *httpsClient: the
\* promoted method needs the embedded httpClient of a nil pointer.
CallOnNilClient ==
    /\ pc \in {"idle", "done"}
    /\ updater.ptr = Nil
    /\ pc' = "panic"
    /\ UNCHANGED <<conf, updater, client, trace, call, r, body, ret, lastCheck>>

\* GetScheduledUpdate up to `defer r.Body.Close()`.
GetScheduledUpdate_Send ==
    /\ CanCall
    /\ \E url \in Urls : \E net \in Outcomes(url, CheckResponses) :
         LET m == makeAndSendRequest(url, net)
         IN  /\ call' = [NoCall EXCEPT !.op = "check", !.url = url, !.built = m.built,
                                       !.requests = m.requests, !.sendErr = m.err]
             /\ r' = m.resp
             /\ IF m.err # Nil
                THEN /\ ret' = CheckReturn(Result(FALSE, ZeroUpdateResponse, m.err))
                     /\ body' = NoBody
                     /\ pc' = "done"
                ELSE /\ ret' = NoReturn
                     /\ body' = [state |-> "open", closes |-> 0]
                     /\ pc' = "process"
             /\ RememberSame(m.resp)
    /\ UNCHANGED <<conf, updater, client, trace>>

\* `return process(r)` with process = processUpdateResponse: the results
\* are evaluated, the deferred call is still to run.
GetScheduledUpdate_Process ==
    /\ pc = "process"
    /\ LET p == processUpdateResponse(r)
       IN  /\ ret' = CheckReturn(p.ret)
           /\ call' = [call EXCEPT !.reads = @ + p.reads, !.decodes = @ + p.decodes,
                                   !.validates = @ + p.validates, !.processed = @ + 1]
    /\ pc' = "deferred"
    /\ UNCHANGED <<conf, updater, client, trace, r, body, lastCheck>>

\* Mutant: the body is closed on the success path only, without defer.
GetScheduledUpdate_Return_NoDefer ==
    /\ pc = "deferred"
    /\ body' = IF ret.err = Nil
               THEN [state |-> "closed", closes |-> body.closes + 1]
               ELSE body
    /\ pc' = "done"
    /\ UNCHANGED <<conf, updater, client, trace, call, r, ret, lastCheck>>

\* The deferred r.Body.Close() runs and GetScheduledUpdate returns.
GetScheduledUpdate_Return ==
    /\ pc = "deferred"
    /\ body' = [state |-> "closed", closes |-> body.closes + 1]
    /\ pc' = "done"
    /\ UNCHANGED <<conf, updater, client, trace, call, r, ret, lastCheck>>

\* The request, the guard and the return of FetchUpdate.
FetchUpdateCall ==
    /\ CanCall
    /\ \E url \in Urls : \E net \in Outcomes(url, FetchResponses) :
         LET m == makeAndSendRequest(url, net)
             g == SizeGuard(m.resp.ContentLength, client.minImageSize)
         IN  /\ call' = [NoCall EXCEPT !.op = "fetch", !.url = url, !.built = m.built,
                                       !.requests = m.requests, !.sendErr = m.err]
             /\ r' = m.resp
             /\ IF m.err # Nil
                THEN /\ ret' = FetchReturn(Nil, -1, m.err)
                     /\ body' = NoBody
                ELSE /\ body' = [state |-> "open", closes |-> 0]
                     /\ ret' = IF g # Nil
                               THEN FetchReturn(Nil, -1, g)
                               ELSE FetchReturn("body", m.resp.ContentLength, Nil)
    /\ pc' = "done"
    /\ RememberAcross
    /\ UNCHANGED <<conf, updater, trace>>

\* Mutant: the accepted length is stored as the client's new minimum.
FetchUpdate_StoresLength ==
    /\ FetchUpdateCall
    /\ client' = IF ret'.stream # Nil
                 THEN [client EXCEPT !.minImageSize = ret'.n]
                 ELSE client

\* FetchUpdate, from the request to its return: the client is only read.
FetchUpdate ==
    /\ FetchUpdateCall
    /\ UNCHANGED client

Next ==
    \/ Construct
    \/ CallOnNilClient
    \/ GetScheduledUpdate_Send
    \/ GetScheduledUpdate_Process
    \/ GetScheduledUpdate_Return
    \/ FetchUpdate

Spec == Init /\ [][Next]_vars

(***************************************************************************)
(* Properties of the update check.                                         *)
(***************************************************************************)
\* An update check returned after it obtained a response.
CheckReturned == pc = "done" /\ call.op = "check" /\ r.got

NonEmptyString(v) == v.t = "str" /\ v.s # ""

\* The document is a JSON object that gives non-empty strings for "ID" and
\* for "URI", "Checksum" and "ID" of the object under "Image".
CompleteDescriptor(b) ==
    /\ b.k = "object"
    /\ b.ImageK = "object"
    /\ NonEmptyString(b.ID)
    /\ NonEmptyString(b.URI)
    /\ NonEmptyString(b.Checksum)
    /\ NonEmptyString(b.ImageID)

\* The call returned (nil, nil).
ReturnedNoUpdate == ~ret.has /\ ret.err = Nil

\* The call returned (data, nil).
ReturnedDescriptor == ret.has /\ ret.err = Nil

\* The call returned (nil, err) with err non-nil.
ReturnedError == ~ret.has /\ ret.err # Nil

\* C1: for a response with status 200 the update check returns a descriptor
\* as success exactly when the body decodes into a descriptor whose four
\* fields id, image.id, image.checksum and image.uri are non-empty; the
\* descriptor returned carries those fields, and in every other case the
\* call returns an error and no descriptor.
C1_DescriptorIffComplete ==
    (CheckReturned /\ r.StatusCode = 200) =>
        /\ ReturnedDescriptor <=> CompleteDescriptor(r.Body)
        /\ ReturnedDescriptor =>
              /\ ret.data.ID = r.Body.ID.s /\ ret.data.ID # ""
              /\ ret.data.Image.ID = r.Body.ImageID.s /\ ret.data.Image.ID # ""
              /\ ret.data.Image.Checksum = r.Body.Checksum.s /\ ret.data.Image.Checksum # ""
              /\ ret.data.Image.URI = r.Body.URI.s /\ ret.data.Image.URI # ""
        /\ ~CompleteDescriptor(r.Body) => ReturnedError

\* C1 witness: a 200 response whose descriptor lacks only the checksum was
\* rejected.
C1_Witness ==
    /\ CheckReturned /\ r.StatusCode = 200
    /\ r.Body = Obj(JStr("a"), JStr("a"), JStr(""), JStr("a"))
    /\ ret.err = errMissingParameters

\* C2 as claimed: for every response with status 204 the update check
\* returns NoUpdate and attempts neither decoding nor validation.
C2_Original ==
    (CheckReturned /\ r.StatusCode = 204) =>
        ReturnedNoUpdate /\ call.decodes = 0 /\ call.validates = 0

\* C2 amended: for every response with status 204 neither decoding nor
\* validation of the body is attempted and no descriptor is returned; the
\* call returns NoUpdate whatever the body holds once the body was read,
\* and the read error when reading the body fails.
C2_NoUpdateOn204 ==
    (CheckReturned /\ r.StatusCode = 204) =>
        /\ call.decodes = 0 /\ call.validates = 0
        /\ ~ret.has
        /\ r.Body.k # "broken" => ReturnedNoUpdate
        /\ r.Body.k = "broken" => ret.err = "unexpected EOF"

\* C2 witness: a 204 response with a complete descriptor as body gave NoUpdate.
C2_Witness ==
    /\ CheckReturned /\ r.StatusCode = 204
    /\ CompleteDescriptor(r.Body)
    /\ ReturnedNoUpdate

\* Status codes without a case of their own.
OtherCodes == {500, 503}

\* C3 as claimed: for every response whose status is neither 200 nor 204
\* the update check returns an error, never a descriptor or NoUpdate: 404
\* gives the not-authorized error, every other code an error that differs
\* from it and from the error of every other such code.
C3_Original ==
    (CheckReturned /\ r.StatusCode \notin {200, 204}) =>
        /\ ReturnedError
        /\ r.StatusCode = 404 => ret.err = errNotAuthorized
        /\ r.StatusCode # 404 =>
              /\ ret.err # errNotAuthorized
              /\ \A c \in OtherCodes \ {r.StatusCode} :
                    processUpdateResponse(Response(c, r.Body, -1)).ret.err # ret.err

\* C3 amended: for every response whose status is neither 200 nor 204 the
\* update check returns an error, never a descriptor or NoUpdate; once the
\* body was read, 404 gives the not-authorized error and every other code
\* gives one and the same invalid-response error, which differs from the
\* not-authorized error and does not tell the code; when reading the body
\* fails the read error is returned.
C3_ErrorOnOtherStatus ==
    (CheckReturned /\ r.StatusCode \notin {200, 204}) =>
        /\ ReturnedError
        /\ call.decodes = 0
        /\ (r.Body.k # "broken" /\ r.StatusCode = 404) => ret.err = errNotAuthorized
        /\ (r.Body.k # "broken" /\ r.StatusCode # 404) =>
              ret.err = errInvalidResponse /\ ret.err # errNotAuthorized
        /\ r.Body.k = "broken" => ret.err = "unexpected EOF"

\* C3 witness: status 404 gave the not-authorized error.
C3_Witness ==
    /\ CheckReturned /\ r.StatusCode = 404
    /\ ret.err = errNotAuthorized

\* C4: once GetScheduledUpdate has a response, the body stays open while
\* the response is processed and has been closed exactly once when the
\* call has returned, on every path; the body is not handed to the caller.
C4_BodyClosedOnce ==
    /\ (call.op = "check" /\ pc \in {"process", "deferred"}) =>
          body.state = "open" /\ body.closes = 0
    /\ CheckReturned =>
          body.state = "closed" /\ body.closes = 1 /\ ret.stream = Nil

\* C4 witness: the call returned a decode error and the body is closed.
C4_Witness ==
    /\ CheckReturned /\ r.StatusCode = 200
    /\ ret.err = errSyntax
    /\ body.state = "closed" /\ body.closes = 1

(***************************************************************************)
(* Properties of the request step and of the download.                     *)
(***************************************************************************)
\* A call of GetScheduledUpdate or FetchUpdate returned.
CallReturned == pc = "done" /\ call.op \in {"check", "fetch"}

\* The call returned at once with the error of the failed request: nothing
\* was read, closed or processed and no response reached the caller.
ReturnedAtOnce(e) ==
    /\ ret.err = e
    /\ ~ret.has /\ ret.stream = Nil
    /\ ~r.got
    /\ body.state = "none" /\ body.closes = 0
    /\ call.reads = 0 /\ call.processed = 0

\* C5 as claimed: each call issues exactly one GET request; when it fails
\* at the transport level the call returns the transport error at once,
\* without reading or closing a body, without processing a response and
\* without a second request.
C5_Original ==
    CallReturned =>
        /\ call.requests = 1
        /\ call.sendErr = errTransport => ReturnedAtOnce(errTransport)

\* C5 amended: each call issues at most one GET request, and exactly one
\* once the request was built from the URL; a URL from which no request
\* can be built makes the call return that error at once with no request
\* issued; when the request fails at the transport level the call returns
\* the transport error at once, without reading or closing a body, without
\* processing a response and without a second request.
C5_OneRequestPerCall ==
    /\ call.requests <= 1
    /\ CallReturned =>
          /\ call.built => call.requests = 1
          /\ ~call.built =>
                call.requests = 0 /\ ReturnedAtOnce(NewRequest(call.url))
          /\ call.sendErr = errTransport =>
                call.requests = 1 /\ ReturnedAtOnce(errTransport)
          /\ r.got <=> (call.built /\ call.sendErr = Nil)

\* C5 witness: a download failed at the transport level after one request.
C5_Witness ==
    /\ CallReturned /\ call.op = "fetch"
    /\ call.sendErr = errTransport /\ call.requests = 1
    /\ ret.err = errTransport

\* A download returned after it obtained a response.
FetchReturned == pc = "done" /\ call.op = "fetch" /\ r.got

C9_Idempotent ==
    /\ pc # "new" => client = NewUpdater(conf).c
    /\ (CheckReturned /\ lastCheck.some /\ lastCheck.r = r) =>
          ret = lastCheck.ret /\ client = lastCheck.client

\* C9 witness: the later of two update checks that obtained the same 200
\* response returned a descriptor, as the earlier one did.
C9_Witness ==
    /\ CheckReturned /\ lastCheck.some /\ lastCheck.r = r
    /\ r.StatusCode = 200 /\ ret.has /\ lastCheck.ret.has

\* C10 as claimed: after FetchUpdate returned, the body of the response it
\* obtained is owned by the caller (returned open) or has been closed.
C10_NoOrphanBody ==
    FetchReturned => (ret.stream = "body" /\ body.state = "open") \/ body.state = "closed"

(***************************************************************************)
(* Properties of construction.                                             *)
(***************************************************************************)
Constructed == pc # "new"

Did(step) == \E i \in 1..Len(trace) : trace[i] = step

\* The server certificate at a non-empty path gives no trust pool.
ServerTrustFails(cf) == cf.serverCert \in {"/missing.pem", "/junk.pem"}

\* The client certificate and key at non-empty paths do not load as a pair.
ClientPairFails(cf) ==
    /\ cf.certFile # "" /\ cf.certKey # ""
    /\ ~(cf.certFile = "/client.crt" /\ cf.certKey = "/client.key")

\* C7 as claimed: when a trust step fails for a non-empty configuration,
\* the value NewUpdater returns is the nil client the caller can detect,
\* no transport is configured, and a failed server trust step ends
\* construction before the client credential is loaded.
C7_NilClientOnTrustFailure ==
    (Constructed /\ conf # EmptyConfig /\ (ServerTrustFails(conf) \/ ClientPairFails(conf))) =>
        /\ IsNilInterface(updater)
        /\ client.HTTPClient.Transport = Nil
        /\ ServerTrustFails(conf) => ~Did("initClientCert")

\* C8: construction with the empty configuration gives a usable plain
\* client and runs no trust step; for a non-empty configuration an empty
\* serverCert makes the server trust step warn and succeed, an empty
\* certFile or certKey makes the client credential step warn and succeed,
\* and no client is produced only when a non-empty path fails to load.
C8_AbsenceNeverFails ==
    Constructed =>
        /\ conf = EmptyConfig =>
              /\ updater = [itype |-> "*httpClient", ptr |-> "client"]
              /\ client.HTTPClient.Transport = Nil
              /\ ~Did("initServerTrust") /\ ~Did("initClientCert")
        /\ (conf # EmptyConfig /\ conf.serverCert = "") =>
              Did(warnNoServerCert) /\ ~Did("ReadFile") /\ Did("initClientCert")
        /\ (conf # EmptyConfig /\ ~ServerTrustFails(conf)
               /\ (conf.certFile = "" \/ conf.certKey = "")) =>
              Did(warnNoClientCert) /\ ~Did("LoadX509KeyPair") /\ updater.ptr = "client"
        /\ updater.ptr = Nil <=> (ServerTrustFails(conf) \/ ClientPairFails(conf))
        /\ (updater.ptr = "client" /\ conf # EmptyConfig) => client.HTTPClient.Transport = "tls"

\* C8 witness: a configuration that names only a client certificate, with
\* no key and no server certificate, gave a client after two warnings.
C8_Witness ==
    /\ Constructed
    /\ conf = [certFile |-> "/client.crt", certKey |-> "", serverCert |-> ""]
    /\ updater.ptr = "client"
    /\ Did(warnNoServerCert) /\ Did(warnNoClientCert)

====
